---- MODULE Spec2Model ----
(***************************************************************************)
(* State-machine model of contracts/SBOMRegistry.sol: the vendor registry, *)
(* the SBOM record store, the version-history index and the signature      *)
(* recovery they rely on.  Every transaction is one atomic step; a         *)
(* transaction that hits a failing require() reverts, i.e. leaves the      *)
(* contract storage exactly as it was.  Every mined transaction gets a     *)
(* block of its own, so block timestamps are distinct and increasing.      *)
(***************************************************************************)
EXTENDS Integers, Sequences, FiniteSets, TLC

----------------------------------------------------------------------------
(* Bounds of the model *)

NumAddr == 2      \* externally owned accounts 1..NumAddr (each holds a key)
MaxHash == 2      \* bytes32 values 0..MaxHash
MaxTx == 4        \* transactions mined without a revert

----------------------------------------------------------------------------
(* Values *)

ZeroAddr == 0     \* address(0)
ZeroHash == 0     \* bytes32(0)
SigLength == 65   \* required length of a signature in bytes
Deployer == 1     \* msg.sender of the constructor call

Keys == 1..NumAddr                 \* accounts that can send transactions
NoKeyAddr == NumAddr + 1           \* an address nobody holds the key of
Addresses == 0..NumAddr            \* address arguments of the admin calls
Hashes == 0..MaxHash
Metadata == {"v1.0"}
(* The zero value of the two structs, read from an unwritten mapping slot. *)
NoRS == [key |-> ZeroAddr, prefix |-> "", digest |-> ZeroHash]
EmptyBytes == [len |-> 0, v |-> 0, rs |-> NoRS]
NoRecord ==
  [hash |-> ZeroHash, vendor |-> ZeroAddr, timestamp |-> 0, metadata |-> "",
   previousHash |-> ZeroHash, signature |-> EmptyBytes]
NoVendor ==
  [name |-> "", website |-> "", contactEmail |-> "", verified |-> FALSE,
   registeredAt |-> 0]

----------------------------------------------------------------------------
(* Signatures.  A signature is its byte length, its recovery byte v and    *)
(* the pair (r, s); (r, s) is abstracted to the key that produced it and   *)
(* the 32-byte message it was produced over (prefix + digest).             *)

EthPrefix == "\\x19Ethereum Signed Message:\\n32"

ethSignedHash(_hash) == [prefix |-> EthPrefix, digest |-> _hash]

(* Recovery id of the deterministic ECDSA signature of key over msg. *)
RecId(key, msg) == (key + msg.digest) % 2

(* ecrecover precompile: the signing key when (v, r, s) is that key's      *)
(* signature over msgHash, address(0) when (r, s) is not a curve point,    *)
(* and otherwise the address of some unrelated public key.                 *)
ecrecover(msgHash, v, rs) ==
  IF rs.key = ZeroAddr THEN ZeroAddr
  ELSE IF rs.prefix = msgHash.prefix /\ rs.digest = msgHash.digest
          /\ v = 27 + RecId(rs.key, msgHash)
       THEN rs.key
       ELSE NoKeyAddr

(* Variant: the wallet signs the raw digest, without the message prefix. *)
signHash_raw(hash, wallet) ==
  [len |-> SigLength,
   v   |-> 27 + RecId(wallet, [prefix |-> "", digest |-> hash]),
   rs  |-> [key |-> wallet, prefix |-> "", digest |-> hash]]

(* wallet.signMessage(getBytes(hash)) of cli/utils/sign.js *)
signHash(hash, wallet) ==
  [len |-> SigLength,
   v   |-> 27 + RecId(wallet, ethSignedHash(hash)),
   rs  |-> [key |-> wallet, prefix |-> EthPrefix, digest |-> hash]]

(* Signature arguments tried by the callers: every account's signature     *)
(* over every hash, and malformed, unprefixed and low-v variants.          *)
Truncated == [signHash(1, 1) EXCEPT !.len = 64]
BadVersion == [signHash(1, 1) EXCEPT !.v = 29]
NotOnCurve == [signHash(1, 1) EXCEPT !.rs = NoRS]
Unprefixed == [signHash(1, 1) EXCEPT !.rs.prefix = ""]
LowV == [signHash(MaxHash, 1) EXCEPT !.v = @ - 27]
Signatures ==
  { signHash(h, k) : h \in Hashes, k \in Keys }
    \cup {Truncated, BadVersion, NotOnCurve, Unprefixed, LowV}

(* Result of a call that may revert. *)
Revert(reason) == [reverted |-> TRUE, reason |-> reason, value |-> ZeroAddr]
Return(value) == [reverted |-> FALSE, reason |-> "", value |-> value]

(* Variant: v = 27 is normalised as well. *)
recoverSigner_offByOne(_hash, _signature) ==
  IF _signature.len # SigLength THEN Revert("Invalid signature length")
  ELSE IF _signature.v <= 27 /\ _signature.v + 27 > 255 THEN Revert("Panic(0x11)")
  ELSE LET v == IF _signature.v <= 27 THEN _signature.v + 27 ELSE _signature.v
       IN  IF ~(v = 27 \/ v = 28) THEN Revert("Invalid signature version")
           ELSE Return(ecrecover(ethSignedHash(_hash), v, _signature.rs))

recoverSigner(_hash, _signature) ==
  IF _signature.len # SigLength THEN Revert("Invalid signature length")
  ELSE IF _signature.v < 27 /\ _signature.v + 27 > 255 THEN Revert("Panic(0x11)")
  ELSE LET v == IF _signature.v < 27 THEN _signature.v + 27 ELSE _signature.v
       IN  IF ~(v = 27 \/ v = 28) THEN Revert("Invalid signature version")
           ELSE Return(ecrecover(ethSignedHash(_hash), v, _signature.rs))

----------------------------------------------------------------------------
(* Contract storage *)

VARIABLES
  registryOwner,    \* address
  vendors,          \* mapping(address => VendorInfo)
  sbomRecords,      \* mapping(bytes32 => SBOMRecord)
  versionHistory,   \* mapping(bytes32 => bytes32[])
  rootHash,         \* mapping(bytes32 => bytes32)
  now,              \* block.timestamp of the block being built
  sbomLog,          \* the SBOMRegistered/SBOMUpdated events emitted so far,
                    \* by their indexed topic hash / newHash, oldest first
  last              \* the last transaction that did not revert, its block
                    \* timestamp and the events it emitted

vars == <<registryOwner, vendors, sbomRecords, versionHistory, rootHash, now,
          sbomLog, last>>

AllAddr == 0..(NumAddr + 1)

(* Vendor details given to registerVendor.  The contract only tests the    *)
(* name for emptiness and never compares details, so the callers of the    *)
(* t-th block choose between an empty name and the t-th company: a vendor  *)
(* that is registered again is registered under new details.               *)
Companies ==
  << <<"Acme", "https://acme.example", "security@acme.example">>,
     <<"Beta", "https://beta.example", "security@beta.example">>,
     <<"Gamma", "https://gamma.example", "security@gamma.example">>,
     <<"Delta", "https://delta.example", "security@delta.example">>,
     <<"Epsilon", "https://epsilon.example", "security@epsilon.example">>,
     <<"Zeta", "https://zeta.example", "security@zeta.example">> >>

Profiles ==
  { Companies[((now - 1) % Len(Companies)) + 1],
    <<"", "https://anon.example", "anon@anon.example">> }

Init ==
  /\ registryOwner = Deployer
  /\ vendors = [a \in AllAddr |-> NoVendor]
  /\ sbomRecords = [h \in Hashes |-> NoRecord]
  /\ versionHistory = [h \in Hashes |-> <<>>]
  /\ rootHash = [h \in Hashes |-> ZeroHash]
  /\ now = 1
  /\ sbomLog = [h \in Hashes |-> <<>>]
  /\ last = [op |-> "constructor", sender |-> Deployer, args |-> <<>>,
             at |-> 0, log |-> <<>>]

(* A transaction that does not revert is mined; the model gives every     *)
(* mined transaction a block of its own, so block.timestamp is 1 for the   *)
(* first one and grows by one with each.  A transaction that reverts       *)
(* leaves storage and log as they were: it is a stuttering step.           *)
Mined == now <= MaxTx /\ now' = now + 1

Tx(op, sender, args, log) ==
  [op |-> op, sender |-> sender, args |-> args, at |-> now, log |-> log]

----------------------------------------------------------------------------
(* Views *)

isVerifiedVendor(_vendor) == vendors[_vendor].verified

getVendorInfo(_vendor) == vendors[_vendor]

(* Variant: the signer is recovered without testing that the record exists. *)
verifySignature_noExistsCheck(_hash) ==
  LET record == sbomRecords[_hash]
      r == recoverSigner(_hash, record.signature)
  IN  IF r.reverted
      THEN [reverted |-> TRUE, isValid |-> FALSE, signer |-> ZeroAddr]
      ELSE [reverted |-> FALSE, isValid |-> (r.value = record.vendor),
            signer |-> r.value]

verifySignature(_hash) ==
  LET record == sbomRecords[_hash] IN
  IF record.timestamp = 0
  THEN [reverted |-> FALSE, isValid |-> FALSE, signer |-> ZeroAddr]
  ELSE LET r == recoverSigner(_hash, record.signature) IN
       IF r.reverted
       THEN [reverted |-> TRUE, isValid |-> FALSE, signer |-> ZeroAddr]
       ELSE [reverted |-> FALSE, isValid |-> (r.value = record.vendor),
             signer |-> r.value]

verifySBOM(_hash) ==
  [exists |-> sbomRecords[_hash].timestamp # 0, record |-> sbomRecords[_hash]]

verifyCompleteSBOM(_hash) ==
  LET record == sbomRecords[_hash] IN
  IF record.timestamp = 0
  THEN [reverted |-> FALSE, exists |-> FALSE, signatureValid |-> FALSE,
        vendorVerified |-> FALSE, vendorName |-> ""]
  ELSE [reverted |-> verifySignature(_hash).reverted,
        exists |-> TRUE,
        signatureValid |-> verifySignature(_hash).isValid,
        vendorVerified |-> vendors[record.vendor].verified,
        vendorName |-> vendors[record.vendor].name]

getVersionHistory(_hash) == versionHistory[rootHash[_hash]]

getVersionCount(_hash) == Len(versionHistory[rootHash[_hash]])

getRootHash(_hash) == rootHash[_hash]

----------------------------------------------------------------------------
(* Vendor registry transactions.  X_revert is the message of the first     *)
(* require of X that fails, "" when none does.                             *)

(* Variant: the name require comes before the already-registered require. *)
registerVendor_revert_nameFirst(sender, _vendor, _name) ==
  IF sender # registryOwner THEN "Only registry owner can perform this action"
  ELSE IF _vendor = ZeroAddr THEN "Invalid vendor address"
  ELSE IF _name = "" THEN "Name cannot be empty"
  ELSE IF vendors[_vendor].verified THEN "Vendor already registered"
  ELSE ""

(* Variant: a vendor that was ever registered cannot be registered again. *)
registerVendor_revert_everRegistered(sender, _vendor, _name) ==
  IF sender # registryOwner THEN "Only registry owner can perform this action"
  ELSE IF _vendor = ZeroAddr THEN "Invalid vendor address"
  ELSE IF vendors[_vendor].registeredAt # 0 THEN "Vendor already registered"
  ELSE IF _name = "" THEN "Name cannot be empty"
  ELSE ""

(* Variant: the zero-address require is missing. *)
registerVendor_revert_noZeroCheck(sender, _vendor, _name) ==
  IF sender # registryOwner THEN "Only registry owner can perform this action"
  ELSE IF vendors[_vendor].verified THEN "Vendor already registered"
  ELSE IF _name = "" THEN "Name cannot be empty"
  ELSE ""

registerVendor_revert(sender, _vendor, _name) ==
  IF sender # registryOwner THEN "Only registry owner can perform this action"
  ELSE IF _vendor = ZeroAddr THEN "Invalid vendor address"
  ELSE IF vendors[_vendor].verified THEN "Vendor already registered"
  ELSE IF _name = "" THEN "Name cannot be empty"
  ELSE ""

registerVendor(sender, _vendor, _name, _website, _contactEmail) ==
  /\ Mined
  /\ registerVendor_revert(sender, _vendor, _name) = ""
  /\ vendors' = [vendors EXCEPT ![_vendor] =
                   [name |-> _name, website |-> _website,
                    contactEmail |-> _contactEmail, verified |-> TRUE,
                    registeredAt |-> now]]
  /\ last' = Tx("registerVendor", sender,
                <<_vendor, _name, _website, _contactEmail>>,
                <<[name |-> "VendorRegistered", vendor |-> _vendor,
                   vendorName |-> _name, timestamp |-> now]>>)
  /\ UNCHANGED <<registryOwner, sbomRecords, versionHistory, rootHash, sbomLog>>

(* Variant: the vendor-verified require is missing. *)
revokeVendor_revert_noVerifiedCheck(sender, _vendor) ==
  IF sender # registryOwner THEN "Only registry owner can perform this action"
  ELSE ""

revokeVendor_revert(sender, _vendor) ==
  IF sender # registryOwner THEN "Only registry owner can perform this action"
  ELSE IF ~vendors[_vendor].verified THEN "Vendor not verified"
  ELSE ""

(* Variant: the vendor's entry is deleted. *)
revokeVendor_vendors_delete(_vendor) == [vendors EXCEPT ![_vendor] = NoVendor]

(* vendors[_vendor].verified = false *)
revokeVendor_vendors(_vendor) == [vendors EXCEPT ![_vendor].verified = FALSE]

(* Variant: the entry is written whether or not the vendor is verified. *)
revokeVendor_unchecked(sender, _vendor) ==
  /\ Mined
  /\ sender = registryOwner
  /\ vendors' = revokeVendor_vendors(_vendor)
  /\ last' = Tx("revokeVendor", sender, <<_vendor>>,
                <<[name |-> "VendorRevoked", vendor |-> _vendor,
                   timestamp |-> now]>>)
  /\ UNCHANGED <<registryOwner, sbomRecords, versionHistory, rootHash, sbomLog>>

revokeVendor(sender, _vendor) ==
  /\ Mined
  /\ revokeVendor_revert(sender, _vendor) = ""
  /\ vendors' = revokeVendor_vendors(_vendor)
  /\ last' = Tx("revokeVendor", sender, <<_vendor>>,
                <<[name |-> "VendorRevoked", vendor |-> _vendor,
                   timestamp |-> now]>>)
  /\ UNCHANGED <<registryOwner, sbomRecords, versionHistory, rootHash, sbomLog>>

(* Variant: the onlyRegistryOwner modifier is missing. *)
transferOwnership_revert_noOwnerCheck(sender, _newOwner) ==
  IF _newOwner = ZeroAddr THEN "Invalid new owner address"
  ELSE ""

(* Variant: the new-owner require is missing. *)
transferOwnership_revert_noZeroCheck(sender, _newOwner) ==
  IF sender # registryOwner THEN "Only registry owner can perform this action"
  ELSE ""

transferOwnership_revert(sender, _newOwner) ==
  IF sender # registryOwner THEN "Only registry owner can perform this action"
  ELSE IF _newOwner = ZeroAddr THEN "Invalid new owner address"
  ELSE ""

transferOwnership(sender, _newOwner) ==
  /\ Mined
  /\ transferOwnership_revert(sender, _newOwner) = ""
  /\ registryOwner' = _newOwner
  /\ last' = Tx("transferOwnership", sender, <<_newOwner>>, <<>>)
  /\ UNCHANGED <<vendors, sbomRecords, versionHistory, rootHash, sbomLog>>

----------------------------------------------------------------------------
(* SBOM transactions *)

(* Variant: the vendor-verified require is missing. *)
registerSBOM_revert_noVendorCheck(sender, _hash, _signature) ==
  IF sbomRecords[_hash].timestamp # 0 THEN "SBOM already registered"
  ELSE IF _signature.len # SigLength THEN "Invalid signature length"
  ELSE IF recoverSigner(_hash, _signature).reverted
       THEN recoverSigner(_hash, _signature).reason
  ELSE IF recoverSigner(_hash, _signature).value # sender
       THEN "Invalid signature - signer does not match sender"
  ELSE ""

(* Variant: the already-registered require is missing. *)
registerSBOM_revert_noExistsCheck(sender, _hash, _signature) ==
  IF _signature.len # SigLength THEN "Invalid signature length"
  ELSE IF recoverSigner(_hash, _signature).reverted
       THEN recoverSigner(_hash, _signature).reason
  ELSE IF recoverSigner(_hash, _signature).value # sender
       THEN "Invalid signature - signer does not match sender"
  ELSE IF ~vendors[sender].verified
       THEN "Vendor not verified - please register as vendor first"
  ELSE ""

(* Variant: the vendor require accepts every vendor that was ever registered. *)
registerSBOM_revert_everRegistered(sender, _hash, _signature) ==
  IF sbomRecords[_hash].timestamp # 0 THEN "SBOM already registered"
  ELSE IF _signature.len # SigLength THEN "Invalid signature length"
  ELSE IF recoverSigner(_hash, _signature).reverted
       THEN recoverSigner(_hash, _signature).reason
  ELSE IF recoverSigner(_hash, _signature).value # sender
       THEN "Invalid signature - signer does not match sender"
  ELSE IF vendors[sender].registeredAt = 0
       THEN "Vendor not verified - please register as vendor first"
  ELSE ""

(* Variant: the already-registered require comes after the other requires. *)
registerSBOM_revert_existsLast(sender, _hash, _signature) ==
  IF _signature.len # SigLength THEN "Invalid signature length"
  ELSE IF recoverSigner(_hash, _signature).reverted
       THEN recoverSigner(_hash, _signature).reason
  ELSE IF recoverSigner(_hash, _signature).value # sender
       THEN "Invalid signature - signer does not match sender"
  ELSE IF ~vendors[sender].verified
       THEN "Vendor not verified - please register as vendor first"
  ELSE IF sbomRecords[_hash].timestamp # 0 THEN "SBOM already registered"
  ELSE ""

(* Variant: only the vendor of the record is told it is already registered. *)
registerSBOM_revert_sameVendorOnly(sender, _hash, _signature) ==
  IF sbomRecords[_hash].timestamp # 0 /\ sbomRecords[_hash].vendor = sender
  THEN "SBOM already registered"
  ELSE IF _signature.len # SigLength THEN "Invalid signature length"
  ELSE IF recoverSigner(_hash, _signature).reverted
       THEN recoverSigner(_hash, _signature).reason
  ELSE IF recoverSigner(_hash, _signature).value # sender
       THEN "Invalid signature - signer does not match sender"
  ELSE IF ~vendors[sender].verified
       THEN "Vendor not verified - please register as vendor first"
  ELSE ""

(* Variant: the recovered signer is not compared with the sender. *)
registerSBOM_revert_noSignerCheck(sender, _hash, _signature) ==
  IF sbomRecords[_hash].timestamp # 0 THEN "SBOM already registered"
  ELSE IF _signature.len # SigLength THEN "Invalid signature length"
  ELSE IF recoverSigner(_hash, _signature).reverted
       THEN recoverSigner(_hash, _signature).reason
  ELSE IF ~vendors[sender].verified
       THEN "Vendor not verified - please register as vendor first"
  ELSE ""

(* Variant: the vendor require comes before the signature requires. *)
registerSBOM_revert_vendorFirst(sender, _hash, _signature) ==
  IF sbomRecords[_hash].timestamp # 0 THEN "SBOM already registered"
  ELSE IF ~vendors[sender].verified
       THEN "Vendor not verified - please register as vendor first"
  ELSE IF _signature.len # SigLength THEN "Invalid signature length"
  ELSE IF recoverSigner(_hash, _signature).reverted
       THEN recoverSigner(_hash, _signature).reason
  ELSE IF recoverSigner(_hash, _signature).value # sender
       THEN "Invalid signature - signer does not match sender"
  ELSE ""

registerSBOM_revert(sender, _hash, _signature) ==
  IF sbomRecords[_hash].timestamp # 0 THEN "SBOM already registered"
  ELSE IF _signature.len # SigLength THEN "Invalid signature length"
  ELSE IF recoverSigner(_hash, _signature).reverted
       THEN recoverSigner(_hash, _signature).reason
  ELSE IF recoverSigner(_hash, _signature).value # sender
       THEN "Invalid signature - signer does not match sender"
  ELSE IF ~vendors[sender].verified
       THEN "Vendor not verified - please register as vendor first"
  ELSE ""

(* Variant: the root record is stored without its timestamp. *)
registerSBOM_record_noTimestamp(sender, _hash, _metadata, _signature) ==
  [hash |-> _hash, vendor |-> sender, timestamp |-> 0,
   metadata |-> _metadata, previousHash |-> ZeroHash,
   signature |-> _signature]

registerSBOM_record(sender, _hash, _metadata, _signature) ==
  [hash |-> _hash, vendor |-> sender, timestamp |-> now,
   metadata |-> _metadata, previousHash |-> ZeroHash,
   signature |-> _signature]

(* emit SBOMRegistered(_hash, msg.sender, block.timestamp, _metadata) *)
registerSBOM_event(sender, _hash, _metadata) ==
  [name |-> "SBOMRegistered", hash |-> _hash, vendor |-> sender,
   timestamp |-> now, metadata |-> _metadata]

(* rootHash[_hash] = _hash *)
registerSBOM_rootHash(_hash) == [rootHash EXCEPT ![_hash] = _hash]

(* Variant: the root is not pushed on its own history. *)
registerSBOM_versionHistory_skip(_hash) == versionHistory

(* versionHistory[_hash].push(_hash) *)
registerSBOM_versionHistory(_hash) ==
  [versionHistory EXCEPT ![_hash] = Append(@, _hash)]

registerSBOM(sender, _hash, _metadata, _signature) ==
  /\ Mined
  /\ registerSBOM_revert(sender, _hash, _signature) = ""
  /\ sbomRecords' = [sbomRecords EXCEPT ![_hash] =
                       registerSBOM_record(sender, _hash, _metadata, _signature)]
  /\ rootHash' = registerSBOM_rootHash(_hash)
  /\ versionHistory' = registerSBOM_versionHistory(_hash)
  /\ sbomLog' = [sbomLog EXCEPT ![_hash] =
                   Append(@, registerSBOM_event(sender, _hash, _metadata))]
  /\ last' = Tx("registerSBOM", sender, <<_hash, _metadata, _signature>>,
                <<registerSBOM_event(sender, _hash, _metadata)>>)
  /\ UNCHANGED <<registryOwner, vendors>>

(* Variant: the new-hash-already-registered require is missing. *)
updateSBOM_revert_noExistsCheck(sender, _oldHash, _newHash, _signature) ==
  IF sbomRecords[_oldHash].timestamp = 0 THEN "Original SBOM not found"
  ELSE IF sbomRecords[_oldHash].vendor # sender
       THEN "Only original vendor can update"
  ELSE IF _signature.len # SigLength THEN "Invalid signature length"
  ELSE IF recoverSigner(_newHash, _signature).reverted
       THEN recoverSigner(_newHash, _signature).reason
  ELSE IF recoverSigner(_newHash, _signature).value # sender
       THEN "Invalid signature - signer does not match sender"
  ELSE ""

(* Variant: the new-hash require is evaluated before the vendor require. *)
updateSBOM_revert_existsFirst(sender, _oldHash, _newHash, _signature) ==
  IF sbomRecords[_oldHash].timestamp = 0 THEN "Original SBOM not found"
  ELSE IF sbomRecords[_newHash].timestamp # 0 THEN "New hash already registered"
  ELSE IF sbomRecords[_oldHash].vendor # sender
       THEN "Only original vendor can update"
  ELSE IF _signature.len # SigLength THEN "Invalid signature length"
  ELSE IF recoverSigner(_newHash, _signature).reverted
       THEN recoverSigner(_newHash, _signature).reason
  ELSE IF recoverSigner(_newHash, _signature).value # sender
       THEN "Invalid signature - signer does not match sender"
  ELSE ""

(* Variant: the original-vendor require is missing. *)
updateSBOM_revert_noOwnerCheck(sender, _oldHash, _newHash, _signature) ==
  IF sbomRecords[_oldHash].timestamp = 0 THEN "Original SBOM not found"
  ELSE IF sbomRecords[_newHash].timestamp # 0 THEN "New hash already registered"
  ELSE IF _signature.len # SigLength THEN "Invalid signature length"
  ELSE IF recoverSigner(_newHash, _signature).reverted
       THEN recoverSigner(_newHash, _signature).reason
  ELSE IF recoverSigner(_newHash, _signature).value # sender
       THEN "Invalid signature - signer does not match sender"
  ELSE ""

(* Variant: the sender must also be a verified vendor. *)
updateSBOM_revert_verifiedOnly(sender, _oldHash, _newHash, _signature) ==
  IF sbomRecords[_oldHash].timestamp = 0 THEN "Original SBOM not found"
  ELSE IF sbomRecords[_oldHash].vendor # sender
       THEN "Only original vendor can update"
  ELSE IF sbomRecords[_newHash].timestamp # 0 THEN "New hash already registered"
  ELSE IF _signature.len # SigLength THEN "Invalid signature length"
  ELSE IF recoverSigner(_newHash, _signature).reverted
       THEN recoverSigner(_newHash, _signature).reason
  ELSE IF recoverSigner(_newHash, _signature).value # sender
       THEN "Invalid signature - signer does not match sender"
  ELSE IF ~vendors[sender].verified
       THEN "Vendor not verified - please register as vendor first"
  ELSE ""

(* Variant: the new-hash require comes after the signature requires. *)
updateSBOM_revert_existsLast(sender, _oldHash, _newHash, _signature) ==
  IF sbomRecords[_oldHash].timestamp = 0 THEN "Original SBOM not found"
  ELSE IF sbomRecords[_oldHash].vendor # sender
       THEN "Only original vendor can update"
  ELSE IF _signature.len # SigLength THEN "Invalid signature length"
  ELSE IF recoverSigner(_newHash, _signature).reverted
       THEN recoverSigner(_newHash, _signature).reason
  ELSE IF recoverSigner(_newHash, _signature).value # sender
       THEN "Invalid signature - signer does not match sender"
  ELSE IF sbomRecords[_newHash].timestamp # 0 THEN "New hash already registered"
  ELSE ""

(* Variant: the signature is decoded before the records are looked up. *)
updateSBOM_revert_signatureFirst(sender, _oldHash, _newHash, _signature) ==
  IF _signature.len # SigLength THEN "Invalid signature length"
  ELSE IF recoverSigner(_newHash, _signature).reverted
       THEN recoverSigner(_newHash, _signature).reason
  ELSE IF sbomRecords[_oldHash].timestamp = 0 THEN "Original SBOM not found"
  ELSE IF sbomRecords[_oldHash].vendor # sender
       THEN "Only original vendor can update"
  ELSE IF sbomRecords[_newHash].timestamp # 0 THEN "New hash already registered"
  ELSE IF recoverSigner(_newHash, _signature).value # sender
       THEN "Invalid signature - signer does not match sender"
  ELSE ""

updateSBOM_revert(sender, _oldHash, _newHash, _signature) ==
  IF sbomRecords[_oldHash].timestamp = 0 THEN "Original SBOM not found"
  ELSE IF sbomRecords[_oldHash].vendor # sender
       THEN "Only original vendor can update"
  ELSE IF sbomRecords[_newHash].timestamp # 0 THEN "New hash already registered"
  ELSE IF _signature.len # SigLength THEN "Invalid signature length"
  ELSE IF recoverSigner(_newHash, _signature).reverted
       THEN recoverSigner(_newHash, _signature).reason
  ELSE IF recoverSigner(_newHash, _signature).value # sender
       THEN "Invalid signature - signer does not match sender"
  ELSE ""

updateSBOM_record(sender, _oldHash, _newHash, _metadata, _signature) ==
  [hash |-> _newHash, vendor |-> sender, timestamp |-> now,
   metadata |-> _metadata, previousHash |-> _oldHash,
   signature |-> _signature]

(* Variant: the previous version is taken as the root. *)
updateSBOM_root_previous(_oldHash) == _oldHash

updateSBOM_root(_oldHash) == rootHash[_oldHash]

(* Variant: the two hashes are emitted in the wrong order. *)
updateSBOM_event_swapped(sender, _oldHash, _newHash) ==
  [name |-> "SBOMUpdated", oldHash |-> _newHash, newHash |-> _oldHash,
   vendor |-> sender, timestamp |-> now]

(* emit SBOMUpdated(_oldHash, _newHash, msg.sender, block.timestamp) *)
updateSBOM_event(sender, _oldHash, _newHash) ==
  [name |-> "SBOMUpdated", oldHash |-> _oldHash, newHash |-> _newHash,
   vendor |-> sender, timestamp |-> now]

(* Variant: the root entry is also pointed at the newest version. *)
updateSBOM_rootHash_relink(root, _newHash) ==
  [rootHash EXCEPT ![_newHash] = root, ![root] = _newHash]

(* Variant: the new version is made its own root. *)
updateSBOM_rootHash_self(root, _newHash) ==
  [rootHash EXCEPT ![_newHash] = _newHash]

(* rootHash[_newHash] = root *)
updateSBOM_rootHash(root, _newHash) == [rootHash EXCEPT ![_newHash] = root]

(* Variant: the new version is put in front of the history. *)
updateSBOM_versionHistory_prepend(root, _newHash) ==
  [versionHistory EXCEPT ![root] = <<_newHash>> \o @]

(* Variant: the new version is pushed on its own history. *)
updateSBOM_versionHistory_ownKey(root, _newHash) ==
  [versionHistory EXCEPT ![_newHash] = Append(@, _newHash)]

(* Variant: the new version overwrites the latest entry. *)
updateSBOM_versionHistory_overwrite(root, _newHash) ==
  [versionHistory EXCEPT ![root] = [@ EXCEPT ![Len(@)] = _newHash]]

(* Variant: the history of the root is restarted with the new version. *)
updateSBOM_versionHistory_restart(root, _newHash) ==
  [versionHistory EXCEPT ![root] = <<_newHash>>]

(* versionHistory[root].push(_newHash) *)
updateSBOM_versionHistory(root, _newHash) ==
  [versionHistory EXCEPT ![root] = Append(@, _newHash)]

updateSBOM(sender, _oldHash, _newHash, _metadata, _signature) ==
  /\ Mined
  /\ updateSBOM_revert(sender, _oldHash, _newHash, _signature) = ""
  /\ LET root == updateSBOM_root(_oldHash) IN
       /\ sbomRecords' = [sbomRecords EXCEPT ![_newHash] =
            updateSBOM_record(sender, _oldHash, _newHash, _metadata, _signature)]
       /\ rootHash' = updateSBOM_rootHash(root, _newHash)
       /\ versionHistory' = updateSBOM_versionHistory(root, _newHash)
  /\ sbomLog' = [sbomLog EXCEPT ![_newHash] =
                   Append(@, updateSBOM_event(sender, _oldHash, _newHash))]
  /\ last' = Tx("updateSBOM", sender,
                <<_oldHash, _newHash, _metadata, _signature>>,
                <<updateSBOM_event(sender, _oldHash, _newHash)>>)
  /\ UNCHANGED <<registryOwner, vendors>>

Next ==
  \/ \E s \in Keys, a \in Addresses, p \in Profiles :
        registerVendor(s, a, p[1], p[2], p[3])
  \/ \E s \in Keys, a \in Addresses : revokeVendor(s, a)
  \/ \E s \in Keys, a \in Addresses : transferOwnership(s, a)
  \/ \E s \in Keys, h \in Hashes, m \in Metadata, sig \in Signatures :
        registerSBOM(s, h, m, sig)
  \/ \E s \in Keys, o \in Hashes, n \in Hashes, m \in Metadata, sig \in Signatures :
        updateSBOM(s, o, n, m, sig)

Spec == Init /\ [][Next]_vars

----------------------------------------------------------------------------
(* Signing and recovery on their own: a wallet signs a digest with the CLI *)
(* signer and the contract recovers the signer, or recoverSigner is called *)
(* on arbitrary signature bytes.  The contract storage is not involved.    *)

MaxUint8 == 255                    \* largest value of the recovery byte v
Lengths == {0, 64, 65, 66}         \* signature lengths tried
Wire ==
  [len : Lengths, v : 0..MaxUint8,
   rs : {signHash(h, k).rs : h \in Hashes, k \in Keys} \cup {NoRS}]

SigInit ==
  /\ registryOwner = Deployer
  /\ vendors = [a \in AllAddr |-> NoVendor]
  /\ sbomRecords = [h \in Hashes |-> NoRecord]
  /\ versionHistory = [h \in Hashes |-> <<>>]
  /\ rootHash = [h \in Hashes |-> ZeroHash]
  /\ now = 1
  /\ sbomLog = [h \in Hashes |-> <<>>]
  /\ \/ \E h \in Hashes, k \in Keys :
          last = [op |-> "digest", sender |-> k, args |-> <<h>>, at |-> 0,
                  log |-> <<>>]
     \/ \E h \in Hashes, sig \in Wire :
          last = [op |-> "bytes", sender |-> ZeroAddr, args |-> <<h, sig>>,
                  at |-> 0, log |-> <<>>]

(* signature = await signHash(hash, wallet) *)
callSignHash ==
  /\ last.op = "digest"
  /\ last' = [last EXCEPT !.op = "signHash",
                          !.args = <<last.args[1],
                                     signHash(last.args[1], last.sender)>>]
  /\ UNCHANGED <<registryOwner, vendors, sbomRecords, versionHistory,
                 rootHash, now, sbomLog>>

(* registry.recoverSigner(hash, signature) *)
callRecoverSigner ==
  /\ last.op \in {"signHash", "bytes"}
  /\ last' = [last EXCEPT !.op = "recoverSigner",
                          !.log = <<recoverSigner(last.args[1], last.args[2])>>]
  /\ UNCHANGED <<registryOwner, vendors, sbomRecords, versionHistory,
                 rootHash, now, sbomLog>>

SigNext == callSignHash \/ callRecoverSigner

SigSpec == SigInit /\ [][SigNext]_vars

-----
(* Vocabulary of the properties *)

recordExists(h) == verifySBOM(h).exists

(* A transaction was mined in this step. *)
Success == now' = now + 1

(* Well-formed: 65 bytes and a recovery byte that normalises to 27 or 28. *)
WellFormed(sig) == sig.len = 65 /\ sig.v \in {0, 1, 27, 28}

IsPrefix(a, b) == Len(a) <= Len(b) /\ SubSeq(b, 1, Len(a)) = a

(* An SBOMUpdated event was emitted for newHash = h. *)
CreatedByUpdate(h) ==
  \E i \in 1..Len(sbomLog[h]) : sbomLog[h][i].name = "SBOMUpdated"

(* Position of h in the sequence chain, 0 when absent. *)
IndexOf(chain, h) ==
  IF \E i \in 1..Len(chain) : chain[i] = h
  THEN CHOOSE i \in 1..Len(chain) : chain[i] = h
  ELSE 0

----------------------------------------------------------------------------
(* C1 - Uniqueness: for every hash h at most one registerSBOM(h) or       *)
(* updateSBOM(.., newHash = h) ever succeeds, and once h has a record no   *)
(* call targeting h can succeed, whoever sends it.                         *)
C1_Uniqueness ==
  \A h \in Hashes :
    /\ Len(sbomLog[h]) <= 1
    /\ recordExists(h) <=> Len(sbomLog[h]) = 1
    /\ recordExists(h) =>
         \A s \in Keys, sig \in Signatures :
           /\ registerSBOM_revert(s, h, sig) # ""
           /\ \A o \in Hashes : updateSBOM_revert(s, o, h, sig) # ""

(* h was created by an update, and its verified owner holds a valid        *)
(* signature over h and over its predecessor's chain.                      *)
C1_Witness ==
  \E h \in Hashes :
    /\ last.op = "updateSBOM" /\ last.args[2] = h
    /\ recordExists(h)
    /\ isVerifiedVendor(last.sender)
    /\ recoverSigner(h, signHash(h, last.sender)).value = last.sender

----------------------------------------------------------------------------
(* C2 - registerSBOM succeeds exactly when the hash has no record, the     *)
(* signature is well-formed and recovers to the sender over the hash, and  *)
(* the sender is a verified vendor; a successful call stores exactly the   *)
(* record {hash, sender, now, metadata, previousHash = 0, signature},      *)
(* makes the hash its own root and its history [hash].                     *)
C2_Guard ==
  \A s \in Keys, h \in Hashes, sig \in Signatures :
    (registerSBOM_revert(s, h, sig) = "")
      <=> /\ ~recordExists(h)
          /\ WellFormed(sig)
          /\ recoverSigner(h, sig).value = s
          /\ isVerifiedVendor(s)

C2_Effect ==
  (Success /\ last'.op = "registerSBOM") =>
    \A s \in Keys, h \in Hashes, m \in Metadata, sig \in Signatures :
      (last'.sender = s /\ last'.args = <<h, m, sig>>) =>
        /\ registerSBOM_revert(s, h, sig) = ""
        /\ sbomRecords' = [sbomRecords EXCEPT ![h] =
              [hash |-> h, vendor |-> s, timestamp |-> now, metadata |-> m,
               previousHash |-> ZeroHash, signature |-> sig]]
        /\ rootHash' = [rootHash EXCEPT ![h] = h]
        /\ versionHistory' = [versionHistory EXCEPT ![h] = <<h>>]
        /\ recordExists(h)'
        /\ getRootHash(h)' = h
        /\ getVersionHistory(h)' = <<h>>

C2_Register == [](C2_Guard) /\ [][C2_Effect]_vars

C2_Witness ==
  /\ last.op = "registerSBOM"
  /\ recordExists(last.args[1])
  /\ getVersionHistory(last.args[1]) = <<last.args[1]>>

----------------------------------------------------------------------------
(* C3 - updateSBOM succeeds exactly when oldHash has a record whose vendor *)
(* is the sender, newHash has none, and the signature is well-formed and   *)
(* recovers to the sender over newHash; a successful call stores exactly   *)
(* the record {newHash, sender, now, metadata, previousHash = oldHash,     *)
(* signature}, gives newHash the root of oldHash and appends newHash at    *)
(* the end of that root's history, for any oldHash of the chain.           *)
C3_Guard ==
  \A s \in Keys, o \in Hashes, n \in Hashes, sig \in Signatures :
    (updateSBOM_revert(s, o, n, sig) = "")
      <=> /\ recordExists(o)
          /\ sbomRecords[o].vendor = s
          /\ ~recordExists(n)
          /\ WellFormed(sig)
          /\ recoverSigner(n, sig).value = s

C3_Effect ==
  (Success /\ last'.op = "updateSBOM") =>
    \A s \in Keys, o \in Hashes, n \in Hashes, m \in Metadata, sig \in Signatures :
      (last'.sender = s /\ last'.args = <<o, n, m, sig>>) =>
        /\ updateSBOM_revert(s, o, n, sig) = ""
        /\ sbomRecords' = [sbomRecords EXCEPT ![n] =
              [hash |-> n, vendor |-> s, timestamp |-> now, metadata |-> m,
               previousHash |-> o, signature |-> sig]]
        /\ rootHash' = [rootHash EXCEPT ![n] = rootHash[o]]
        /\ versionHistory' =
              [versionHistory EXCEPT ![rootHash[o]] = Append(@, n)]

C3_Update == [](C3_Guard) /\ [][C3_Effect]_vars

(* The last update extended a chain from a version that was not its latest. *)
C3_Witness ==
  /\ last.op = "updateSBOM"
  /\ LET o == last.args[1]
         n == last.args[2]
         chain == getVersionHistory(o)
     IN  /\ Len(chain) = 3
         /\ chain[3] = n
         /\ chain[2] # o
         /\ chain[1] # ZeroHash

----------------------------------------------------------------------------
(* C4 - Write-once records: once h has a record, every later step leaves   *)
(* that record present and every one of its fields unchanged.              *)
C4_WriteOnce ==
  [][\A h \in Hashes :
        recordExists(h) => /\ sbomRecords'[h] = sbomRecords[h]
                           /\ recordExists(h)']_vars

(* A record outlived an update of its chain and a later block. *)
C4_Witness ==
  \E h \in Hashes :
    /\ recordExists(h)
    /\ sbomRecords[h].timestamp < last.at
    /\ last.op = "updateSBOM" /\ last.args[1] = h

----------------------------------------------------------------------------
(* C5 - Lineage: every record r created by updateSBOM, with previousHash   *)
(* p, has the root of p, p has a record, and r stands strictly after p in  *)
(* the history of that root.                                               *)
C5_Lineage ==
  \A r \in Hashes :
    (recordExists(r) /\ CreatedByUpdate(r)) =>
      LET p == sbomRecords[r].previousHash
          chain == versionHistory[rootHash[p]]
      IN  /\ rootHash[r] = rootHash[p]
          /\ recordExists(p)
          /\ IndexOf(chain, p) > 0
          /\ IndexOf(chain, r) > IndexOf(chain, p)

(* A version whose predecessor is itself a non-root version. *)
C5_Witness ==
  \E r \in Hashes :
    /\ recordExists(r) /\ CreatedByUpdate(r)
    /\ sbomRecords[r].previousHash # rootHash[r]
    /\ CreatedByUpdate(sbomRecords[r].previousHash)

----------------------------------------------------------------------------
(* C6 - Every record whose previousHash is null (bytes32(0)) is its own    *)
(* root: rootHash[hash] = hash, for every hash value the contract accepts. *)
C6_NullPreviousIsRoot ==
  \A h \in Hashes :
    (recordExists(h) /\ sbomRecords[h].previousHash = ZeroHash) =>
      rootHash[h] = h

----------------------------------------------------------------------------
(* C7 - For every root hash, the length of its version history equals the  *)
(* number of records whose rootHash entry is that root.                    *)
C7_ChainLength ==
  \A root \in Hashes :
    Len(versionHistory[root]) =
      Cardinality({h \in Hashes : recordExists(h) /\ rootHash[h] = root})

(* Two chains, one of them with more than one version. *)
C7_Witness ==
  \E r1 \in Hashes, r2 \in Hashes :
    /\ r1 # r2
    /\ Len(versionHistory[r1]) >= 2
    /\ Len(versionHistory[r2]) = 1

----------------------------------------------------------------------------
(* C8 - Root stability: the root of a registered hash is the same in every *)
(* later state, whatever is registered or updated afterwards.              *)
C8_RootStable ==
  [][\A h \in Hashes :
        recordExists(h) => getRootHash(h)' = getRootHash(h)]_vars

(* A non-root version whose chain was extended by the last transaction. *)
C8_Witness ==
  \E h \in Hashes :
    /\ recordExists(h) /\ getRootHash(h) # h
    /\ last.op = "updateSBOM" /\ last.args[2] # h
    /\ getRootHash(last.args[2]) = getRootHash(h)

----------------------------------------------------------------------------
(* C9 - Chain monotonicity: a successful updateSBOM on a chain raises its  *)
(* version count by exactly 1, every other step leaves it unchanged, and   *)
(* the history of a chain only grows at its end.                           *)
UpdatedChain(root) ==
  /\ Success
  /\ last'.op = "updateSBOM"
  /\ rootHash[last'.args[1]] = root

C9_Monotone ==
  [][\A h \in Hashes :
        recordExists(h) =>
          /\ getVersionCount(h)' =
               getVersionCount(h) + (IF UpdatedChain(rootHash[h]) THEN 1 ELSE 0)
          /\ IsPrefix(getVersionHistory(h), getVersionHistory(h)')]_vars

(* The second update of one chain. *)
C9_Witness ==
  /\ last.op = "updateSBOM"
  /\ getVersionCount(last.args[1]) = 3

----------------------------------------------------------------------------
(* C10 - Authorization of updates: when oldHash has a record and the       *)
(* sender is not its vendor, updateSBOM reverts with "Only original vendor *)
(* can update", whatever the signature, the new hash and the sender's      *)
(* vendor status are.                                                      *)
C10_Authorization ==
  \A o \in Hashes :
    recordExists(o) =>
      \A s \in Keys \ {sbomRecords[o].vendor} :
        \A n \in Hashes, sig \in Signatures :
          updateSBOM_revert(s, o, n, sig) = "Only original vendor can update"

(* A verified vendor that does not own o holds valid signatures over a     *)
(* fresh and over a registered hash, and is rejected for both.             *)
C10_Witness ==
  \E s \in Keys, o \in Hashes, n1 \in Hashes, n2 \in Hashes :
    /\ recordExists(o) /\ sbomRecords[o].vendor # s
    /\ isVerifiedVendor(s)
    /\ ~recordExists(n1) /\ recordExists(n2)
    /\ recoverSigner(n1, signHash(n1, s)).value = s
    /\ updateSBOM_revert(s, o, n1, signHash(n1, s)) = "Only original vendor can update"
    /\ updateSBOM_revert(s, o, n2, signHash(n2, s)) = "Only original vendor can update"

----------------------------------------------------------------------------
(* Revert messages of the contract, by the error they report. *)

Unauthorized == "Only registry owner can perform this action"
InvalidIdentity == {"Invalid vendor address", "Invalid new owner address"}
DuplicatePublisher == "Vendor already registered"
EmptyName == "Name cannot be empty"
NotVerified == "Vendor not verified"
RecordAlreadyExists == {"SBOM already registered", "New hash already registered"}
RecordNotFound == "Original SBOM not found"
NotOwner == "Only original vendor can update"
PublisherNotVerified == "Vendor not verified - please register as vendor first"

----------------------------------------------------------------------------
(* C11 - Chain ownership: every record of a version chain has the vendor   *)
(* of the chain's root record, and a version is only ever added to a chain *)
(* by the vendor of its root.                                              *)
C11_SameVendor ==
  /\ \A h \in Hashes :
        recordExists(h) =>
          /\ recordExists(rootHash[h])
          /\ sbomRecords[h].vendor = sbomRecords[rootHash[h]].vendor
  /\ \A root \in Hashes : \A i \in 1..Len(versionHistory[root]) :
        /\ recordExists(versionHistory[root][i])
        /\ sbomRecords[versionHistory[root][i]].vendor = sbomRecords[root].vendor

C11_OnlyOwnerExtends ==
  \A root \in Hashes :
    versionHistory'[root] # versionHistory[root] =>
      /\ recordExists(root)' 
      /\ last'.sender = sbomRecords'[root].vendor
      /\ recordExists(root) => sbomRecords'[root].vendor = sbomRecords[root].vendor

C11_ChainOwnership == [](C11_SameVendor) /\ [][C11_OnlyOwnerExtends]_vars

(* A chain was extended while another account was a verified vendor with   *)
(* a valid signature over the new version.                                 *)
C11_Witness ==
  /\ last.op = "updateSBOM"
  /\ getVersionCount(last.args[2]) >= 2
  /\ \E s \in Keys :
        /\ s # last.sender
        /\ isVerifiedVendor(s)
        /\ recoverSigner(last.args[2], signHash(last.args[2], s)).value = s

----------------------------------------------------------------------------
(* C12 - registerSBOM never succeeds for a sender that is not currently a  *)
(* verified vendor (never registered, or revoked and not registered        *)
(* again); for a hash without record and the sender's own signature over   *)
(* it the call reverts with the vendor-not-verified message, and no record *)
(* is created.                                                             *)
C12_Guard ==
  \A s \in Keys :
    ~isVerifiedVendor(s) =>
      \A h \in Hashes :
        /\ \A sig \in Signatures : registerSBOM_revert(s, h, sig) # ""
        /\ ~recordExists(h) =>
             registerSBOM_revert(s, h, signHash(h, s)) = PublisherNotVerified

C12_NoRecord ==
  (Success /\ last'.op = "registerSBOM") => isVerifiedVendor(last'.sender)

C12_Unverified == [](C12_Guard) /\ [][C12_NoRecord]_vars

(* One account was revoked and not registered again, another was never     *)
(* registered, and some hash has no record.                                *)
C12_Witness ==
  \E s \in Keys, t \in Keys, h \in Hashes :
    /\ ~isVerifiedVendor(s) /\ getVendorInfo(s).registeredAt # 0
    /\ ~isVerifiedVendor(t) /\ getVendorInfo(t).registeredAt = 0
    /\ ~recordExists(h)
    /\ registerSBOM_revert(s, h, signHash(h, s)) = PublisherNotVerified
    /\ registerSBOM_revert(t, h, signHash(h, t)) = PublisherNotVerified

----------------------------------------------------------------------------
(* C13 - Revocation semantics: from a successful revokeVendor(P) until P   *)
(* is registered again, verifyCompleteSBOM(h) of every h whose record has  *)
(* vendor P returns exists = true, signatureValid = true, vendorVerified = *)
(* false and the name stored for P, which is the name P was registered     *)
(* under.                                                                  *)
C13_WhileRevoked ==
  \A h \in Hashes :
    (recordExists(h) /\ ~isVerifiedVendor(sbomRecords[h].vendor)) =>
      /\ verifyCompleteSBOM(h) =
           [reverted |-> FALSE, exists |-> TRUE, signatureValid |-> TRUE,
            vendorVerified |-> FALSE,
            vendorName |-> getVendorInfo(sbomRecords[h].vendor).name]
      /\ getVendorInfo(sbomRecords[h].vendor).name # ""

C13_Revoke ==
  (Success /\ last'.op = "revokeVendor") =>
    \A P \in Addresses :
      last'.args = <<P>> =>
        /\ isVerifiedVendor(P) /\ ~isVerifiedVendor(P)'
        /\ \A h \in Hashes :
             (recordExists(h) /\ sbomRecords[h].vendor = P) =>
               verifyCompleteSBOM(h)' =
                 [reverted |-> FALSE, exists |-> TRUE, signatureValid |-> TRUE,
                  vendorVerified |-> FALSE,
                  vendorName |-> getVendorInfo(P).name]

C13_Revocation == [](C13_WhileRevoked) /\ [][C13_Revoke]_vars

(* The vendor of a record was revoked, and another transaction was mined   *)
(* since without registering it again.                                     *)
C13_Witness ==
  \E h \in Hashes :
    /\ recordExists(h)
    /\ ~isVerifiedVendor(sbomRecords[h].vendor)
    /\ last.op \in {"registerVendor", "transferOwnership"}
    /\ verifyCompleteSBOM(h).signatureValid

----------------------------------------------------------------------------
(* C14 - Revocation stops future registrations and updates: from a         *)
(* successful revokeVendor(P) until P is registered again no registerSBOM  *)
(* and no updateSBOM sent by P succeeds, so every record is created while  *)
(* its vendor is verified.                                                 *)
C14_NoRecordWhileRevoked ==
  [][\A h \in Hashes :
        (~recordExists(h) /\ recordExists(h)') =>
          /\ last'.op \in {"registerSBOM", "updateSBOM"}
          /\ sbomRecords'[h].vendor = last'.sender
          /\ isVerifiedVendor(last'.sender)]_vars

----------------------------------------------------------------------------
(* C15 - updateSBOM does not consult the vendor table: in every state      *)
(* where the vendor of oldHash is not a verified vendor, its updateSBOM    *)
(* with a new hash without record and its own signature over it passes     *)
(* every require.                                                          *)
C15_RevokedCanUpdate ==
  \A o \in Hashes :
    (recordExists(o) /\ ~isVerifiedVendor(sbomRecords[o].vendor)) =>
      \A n \in Hashes :
        ~recordExists(n) =>
          updateSBOM_revert(sbomRecords[o].vendor, o, n,
                            signHash(n, sbomRecords[o].vendor)) = ""

(* A revoked vendor has extended its chain. *)
C15_Witness ==
  /\ last.op = "updateSBOM"
  /\ ~isVerifiedVendor(last.sender)
  /\ getVendorInfo(last.sender).registeredAt # 0
  /\ sbomRecords[last.args[2]].vendor = last.sender
  /\ getVersionHistory(last.args[1])[getVersionCount(last.args[1])] = last.args[2]

----------------------------------------------------------------------------
(* C16 - Once h has a record, every registerSBOM(h, ..) reverts with "SBOM *)
(* already registered", whoever sends it, verified or not, and whatever    *)
(* the signature is (valid, taken from the record, malformed).             *)
C16_AlreadyRegistered ==
  \A h \in Hashes :
    recordExists(h) =>
      \A s \in Keys, sig \in Signatures \cup {sbomRecords[h].signature} :
        /\ registerSBOM_revert(s, h, sig) = "SBOM already registered"
        /\ registerSBOM_revert(s, h, sig) \in RecordAlreadyExists

(* h has a record; an unverified account and a verified one that is not    *)
(* its vendor try their own, the stored and a truncated signature.         *)
C16_Witness ==
  \E h \in Hashes, s \in Keys, t \in Keys :
    /\ recordExists(h)
    /\ ~isVerifiedVendor(s)
    /\ isVerifiedVendor(t) /\ sbomRecords[h].vendor # t
    /\ registerSBOM_revert(t, h, signHash(h, t)) = "SBOM already registered"
    /\ registerSBOM_revert(t, h, sbomRecords[h].signature) = "SBOM already registered"
    /\ registerSBOM_revert(s, h, Truncated) = "SBOM already registered"

----------------------------------------------------------------------------
(* C17 - Once h has a record, every updateSBOM whose newHash is h reverts  *)
(* with "New hash already registered", for every sender and every oldHash. *)
C17_AlwaysAlreadyExists ==
  \A h \in Hashes :
    recordExists(h) =>
      \A s \in Keys, o \in Hashes, sig \in Signatures :
        updateSBOM_revert(s, o, h, sig) \in RecordAlreadyExists

(* C17 as amended - once h has a record, every updateSBOM whose newHash is *)
(* h reverts: with "Original SBOM not found" when oldHash has no record,   *)
(* else with "Only original vendor can update" when the sender is not the  *)
(* vendor of oldHash, else with "New hash already registered".             *)
C17_Rejected ==
  \A h \in Hashes :
    recordExists(h) =>
      \A s \in Keys, o \in Hashes, sig \in Signatures :
        updateSBOM_revert(s, o, h, sig) =
          IF ~recordExists(o) THEN RecordNotFound
          ELSE IF sbomRecords[o].vendor # s THEN NotOwner
          ELSE "New hash already registered"

(* The new hash of every mined updateSBOM had no record. *)
C17_FreshTarget ==
  (Success /\ last'.op = "updateSBOM") =>
    \E n \in Hashes : last'.args[2] = n /\ ~recordExists(n) /\ recordExists(n)'

C17_UpdateTargetExists == [](C17_Rejected) /\ [][C17_FreshTarget]_vars

(* h has a record, one oldHash has none, and two accounts own records. *)
C17_Witness ==
  \E h \in Hashes, o1 \in Hashes, o2 \in Hashes :
    /\ recordExists(h) /\ ~recordExists(o1) /\ recordExists(o2)
    /\ sbomRecords[o2].vendor # sbomRecords[h].vendor
    /\ updateSBOM_revert(sbomRecords[h].vendor, h, h, Truncated)
         = "New hash already registered"
    /\ updateSBOM_revert(sbomRecords[h].vendor, o2, h, Truncated) = NotOwner

----------------------------------------------------------------------------
(* C18 - Commit-or-nothing: a call on which a require fails leaves the     *)
(* vendor table, the owner, the records, rootHash and the histories as     *)
(* they were and emits no event; that is, every step that changes any of   *)
(* them or emits an event is the step of a call that passes every require  *)
(* of its function.                                                        *)
Accepted(op, sender, args) ==
  \/ /\ op = "registerVendor" /\ Len(args) = 4
     /\ registerVendor_revert(sender, args[1], args[2]) = ""
  \/ /\ op = "revokeVendor" /\ Len(args) = 1
     /\ revokeVendor_revert(sender, args[1]) = ""
  \/ /\ op = "transferOwnership" /\ Len(args) = 1
     /\ transferOwnership_revert(sender, args[1]) = ""
  \/ /\ op = "registerSBOM" /\ Len(args) = 3
     /\ registerSBOM_revert(sender, args[1], args[3]) = ""
  \/ /\ op = "updateSBOM" /\ Len(args) = 4
     /\ updateSBOM_revert(sender, args[1], args[2], args[4]) = ""

C18_CommitOrNothing ==
  [][Accepted(last'.op, last'.sender, last'.args)]_vars

(* After a mined update, calls of all five functions that fail a require   *)
(* are at hand: by a non-owner, on a registered hash, on an unregistered   *)
(* old hash, with a truncated signature.                                   *)
C18_Witness ==
  /\ last.op = "updateSBOM"
  /\ Accepted(last.op, last.sender, last.args) = FALSE
  /\ \E s \in Keys \ {registryOwner}, h \in Hashes :
        /\ registerVendor_revert(s, s, "Acme") = Unauthorized
        /\ revokeVendor_revert(registryOwner, s) = NotVerified
        /\ transferOwnership_revert(registryOwner, ZeroAddr) \in InvalidIdentity
        /\ registerSBOM_revert(s, last.args[2], Truncated) \in RecordAlreadyExists
        /\ ~recordExists(h)
        /\ updateSBOM_revert(s, h, h, Truncated) = RecordNotFound

----------------------------------------------------------------------------
(* C19 - Every registerVendor, revokeVendor and transferOwnership call     *)
(* whose sender is not the current registry owner reverts with "Only       *)
(* registry owner can perform this action" whatever its other arguments    *)
(* are; hence the vendor table and the owner change only in steps of       *)
(* calls sent by the account that is the owner at that moment.             *)
C19_Guard ==
  \A s \in Keys \ {registryOwner}, a \in Addresses :
    /\ \A p \in Profiles : registerVendor_revert(s, a, p[1]) = Unauthorized
    /\ revokeVendor_revert(s, a) = Unauthorized
    /\ transferOwnership_revert(s, a) = Unauthorized

C19_OwnerSteps ==
  (vendors' # vendors \/ registryOwner' # registryOwner) =>
    /\ last'.sender = registryOwner
    /\ last'.op \in {"registerVendor", "revokeVendor", "transferOwnership"}

C19_OnlyOwner == [](C19_Guard) /\ [][C19_OwnerSteps]_vars

(* Ownership was transferred, the new owner has registered a vendor, and   *)
(* the deployer's calls are rejected.                                      *)
C19_Witness ==
  /\ registryOwner # Deployer
  /\ last.op = "registerVendor" /\ last.sender = registryOwner
  /\ isVerifiedVendor(last.args[1])
  /\ registerVendor_revert(Deployer, ZeroAddr, "") = Unauthorized
  /\ revokeVendor_revert(Deployer, last.args[1]) = Unauthorized
  /\ transferOwnership_revert(Deployer, Deployer) = Unauthorized

----------------------------------------------------------------------------
(* C20 - registerVendor sent by the owner reverts with "Invalid vendor     *)
(* address" for address(0), else with "Vendor already registered" when the *)
(* vendor is currently verified, else with "Name cannot be empty" for an   *)
(* empty name, and otherwise succeeds: it stores the given name, website   *)
(* and contactEmail with verified = true and registeredAt = the block      *)
(* timestamp, and isVerifiedVendor(vendor) becomes true.                   *)
C20_Guard ==
  \A a \in Addresses, p \in Profiles :
    registerVendor_revert(registryOwner, a, p[1]) =
      IF a = ZeroAddr THEN "Invalid vendor address"
      ELSE IF isVerifiedVendor(a) THEN DuplicatePublisher
      ELSE IF p[1] = "" THEN EmptyName
      ELSE ""

C20_Effect ==
  (Success /\ last'.op = "registerVendor") =>
    /\ \E a \in Addresses, p \in Profiles : last'.args = <<a, p[1], p[2], p[3]>>
    /\ \A a \in Addresses, p \in Profiles :
      last'.args = <<a, p[1], p[2], p[3]>> =>
        /\ registerVendor_revert(last'.sender, a, p[1]) = ""
        /\ vendors' = [vendors EXCEPT ![a] =
              [name |-> p[1], website |-> p[2], contactEmail |-> p[3],
               verified |-> TRUE, registeredAt |-> now]]
        /\ isVerifiedVendor(a)'
        /\ getVendorInfo(a)'.registeredAt = last'.at
        /\ registryOwner' = registryOwner

C20_RegisterVendor == [](C20_Guard) /\ [][C20_Effect]_vars

(* A revoked vendor that owns a record was registered again under new      *)
(* details; registering it once more is rejected, also with an empty name. *)
C20_Witness ==
  /\ last.op = "registerVendor"
  /\ isVerifiedVendor(last.args[1])
  /\ getVendorInfo(last.args[1]).name = last.args[2]
  /\ getVendorInfo(last.args[1]).registeredAt = last.at
  /\ \E h \in Hashes :
        /\ sbomRecords[h].vendor = last.args[1]
        /\ recordExists(h) /\ sbomRecords[h].timestamp < last.at
  /\ registerVendor_revert(registryOwner, last.args[1], "") = DuplicatePublisher
  /\ registerVendor_revert(registryOwner, ZeroAddr, "") \in InvalidIdentity

----------------------------------------------------------------------------
(* C21 - revokeVendor sent by the owner reverts with "Vendor not verified" *)
(* whenever the vendor is not currently verified (never registered, or     *)
(* already revoked, so a second revoke in a row fails); otherwise it sets  *)
(* verified = false and leaves name, website, contactEmail and             *)
(* registeredAt in place: a vendor entry is never deleted.                 *)
C21_Guard ==
  /\ \A a \in Addresses :
        revokeVendor_revert(registryOwner, a) =
          IF isVerifiedVendor(a) THEN "" ELSE NotVerified
  /\ last.op = "revokeVendor" =>
        /\ ~isVerifiedVendor(last.args[1])
        /\ getVendorInfo(last.args[1]).registeredAt # 0
        /\ getVendorInfo(last.args[1]).name # ""

C21_Effect ==
  /\ (Success /\ last'.op = "revokeVendor") =>
        \E a \in Addresses :
          /\ last'.args = <<a>>
          /\ isVerifiedVendor(a)
          /\ vendors' = [vendors EXCEPT ![a] =
                [name |-> vendors[a].name, website |-> vendors[a].website,
                 contactEmail |-> vendors[a].contactEmail,
                 verified |-> FALSE, registeredAt |-> vendors[a].registeredAt]]
          /\ revokeVendor_revert(registryOwner, a)' = NotVerified
  /\ \A a \in AllAddr :
        getVendorInfo(a).registeredAt # 0 =>
          /\ getVendorInfo(a)'.registeredAt # 0
          /\ getVendorInfo(a)'.name # ""

C21_Revoke == [](C21_Guard) /\ [][C21_Effect]_vars

(* A vendor was just revoked, another account was never registered: both   *)
(* revokes are rejected, and the revoked entry is still there.             *)
C21_Witness ==
  /\ last.op = "revokeVendor"
  /\ getVendorInfo(last.args[1]).name # ""
  /\ revokeVendor_revert(registryOwner, last.args[1]) = NotVerified
  /\ \E b \in Addresses :
        /\ getVendorInfo(b) = NoVendor
        /\ revokeVendor_revert(registryOwner, b) = NotVerified

----------------------------------------------------------------------------
(* C22 - Revocation is no permanent ban: whenever P is not verified (also  *)
(* after any number of revocations) registerVendor(P) by the owner with a  *)
(* non-empty name succeeds, makes isVerifiedVendor(P) true and replaces    *)
(* the stored name, website, contactEmail and registeredAt, so that        *)
(* verifyCompleteSBOM of P's earlier records returns the new name.         *)
C22_Guard ==
  \A P \in Addresses \ {ZeroAddr} :
    ~isVerifiedVendor(P) =>
      \A p \in Profiles :
        p[1] # "" => registerVendor_revert(registryOwner, P, p[1]) = ""

C22_Effect ==
  (Success /\ last'.op = "registerVendor") =>
    \E P \in Addresses, p \in Profiles :
      /\ last'.args = <<P, p[1], p[2], p[3]>>
      /\ isVerifiedVendor(P)'
      /\ getVendorInfo(P)' =
           [name |-> p[1], website |-> p[2], contactEmail |-> p[3],
            verified |-> TRUE, registeredAt |-> now]
      /\ getVendorInfo(P)'.registeredAt > getVendorInfo(P).registeredAt
      /\ \A h \in Hashes :
           (recordExists(h) /\ sbomRecords[h].vendor = P) =>
             /\ verifyCompleteSBOM(h)'.vendorName = p[1]
             /\ verifyCompleteSBOM(h)'.vendorVerified

C22_ReRegister == [](C22_Guard) /\ [][C22_Effect]_vars

(* P registered a record, was revoked and registered again under a name    *)
(* that no earlier block offered; the record reports the new name.         *)
C22_Witness ==
  /\ last.op = "registerVendor"
  /\ \E h \in Hashes :
        /\ recordExists(h)
        /\ sbomRecords[h].vendor = last.args[1]
        /\ verifyCompleteSBOM(h).vendorName = last.args[2]
        /\ verifyCompleteSBOM(h).vendorVerified
        /\ \A t \in 1..sbomRecords[h].timestamp :
             Companies[t][1] # verifyCompleteSBOM(h).vendorName

----------------------------------------------------------------------------
(* C23 - Single transferable owner: the owner is the deployer until a      *)
(* transfer; transferOwnership by the owner to a non-zero address makes    *)
(* that address the owner, and the previous owner (if different) is then   *)
(* rejected as non-owner on every owner-only call; transferOwnership to    *)
(* address(0) reverts with "Invalid new owner address"; the owner is never *)
(* address(0).                                                             *)
C23_Guard ==
  /\ registryOwner # ZeroAddr
  /\ registryOwner \in Keys
  /\ last.op = "constructor" => registryOwner = Deployer
  /\ \A a \in Addresses :
        transferOwnership_revert(registryOwner, a) =
          IF a = ZeroAddr THEN "Invalid new owner address" ELSE ""

C23_Effect ==
  /\ (Success /\ last'.op = "transferOwnership") =>
        \E a \in Addresses \ {ZeroAddr}, previous \in Keys :
          /\ last'.args = <<a>>
          /\ previous = registryOwner
          /\ last'.sender = previous
          /\ registryOwner' = a
          /\ a # previous =>
               \A b \in Addresses :
                 /\ registerVendor_revert(previous, b, "Acme")' = Unauthorized
                 /\ revokeVendor_revert(previous, b)' = Unauthorized
                 /\ transferOwnership_revert(previous, b)' = Unauthorized
  /\ registryOwner' # registryOwner => last'.op = "transferOwnership"

C23_SingleOwner == [](C23_Guard) /\ [][C23_Effect]_vars

(* Ownership has left the deployer, whose owner-only calls are rejected. *)
C23_Witness ==
  /\ last.op = "transferOwnership"
  /\ registryOwner = last.args[1]
  /\ registryOwner # Deployer
  /\ last.sender = Deployer
  /\ transferOwnership_revert(Deployer, Deployer) = Unauthorized
  /\ transferOwnership_revert(registryOwner, ZeroAddr) \in InvalidIdentity

----------------------------------------------------------------------------
(* C24 - Racing registrations: when two verified vendors each hold their   *)
(* own valid signature over the same hash without record, either call can  *)
(* be mined first; once one is mined the other reverts with "SBOM already  *)
(* registered", and the record names the first sender and is never         *)
(* overwritten.                                                            *)
C24_EitherFirst ==
  \A h \in Hashes, s \in Keys, t \in Keys :
    (s # t /\ ~recordExists(h) /\ isVerifiedVendor(s) /\ isVerifiedVendor(t)) =>
      /\ registerSBOM_revert(s, h, signHash(h, s)) = ""
      /\ registerSBOM_revert(t, h, signHash(h, t)) = ""

C24_FirstWins ==
  /\ (Success /\ last'.op = "registerSBOM") =>
        \E h \in Hashes, s \in Keys :
          /\ last'.args[1] = h /\ last'.sender = s
          /\ ~recordExists(h)
          /\ sbomRecords'[h].vendor = s
          /\ \A t \in Keys :
               registerSBOM_revert(t, h, signHash(h, t))' = "SBOM already registered"
  /\ \A h \in Hashes :
        recordExists(h) => sbomRecords'[h].vendor = sbomRecords[h].vendor

C24_Race == [](C24_EitherFirst) /\ [][C24_FirstWins]_vars

(* Two verified vendors raced for h: the first one's registration was      *)
(* mined, the second one's valid signature is rejected.                    *)
C24_Witness ==
  /\ last.op = "registerSBOM"
  /\ sbomRecords[last.args[1]].vendor = last.sender
  /\ \E t \in Keys \ {last.sender} :
        /\ isVerifiedVendor(t) /\ isVerifiedVendor(last.sender)
        /\ recoverSigner(last.args[1], signHash(last.args[1], t)).value = t
        /\ registerSBOM_revert(t, last.args[1], signHash(last.args[1], t))
             = "SBOM already registered"

----------------------------------------------------------------------------
(* C25 - Any two registered hashes a and b of one version chain, i.e.      *)
(* linked by the previousHash of records created by updateSBOM, have the   *)
(* same history, the same version count, equal to the length of that       *)
(* history, and the same root, which is the first element of the history.  *)

(* The record reached from h by following previousHash through the         *)
(* records that updateSBOM created, in at most n steps.                    *)
RECURSIVE Walk(_, _)
Walk(h, n) ==
  IF n = 0 \/ ~CreatedByUpdate(h) THEN h
  ELSE Walk(sbomRecords[h].previousHash, n - 1)

Origin(h) == Walk(h, MaxHash + 1)

SameChain(a, b) ==
  recordExists(a) /\ recordExists(b) /\ Origin(a) = Origin(b)

C25_ChainViews ==
  \A a \in Hashes, b \in Hashes :
    SameChain(a, b) =>
      /\ getVersionHistory(a) = getVersionHistory(b)
      /\ getVersionCount(a) = getVersionCount(b)
      /\ getVersionCount(a) = Len(getVersionHistory(a))
      /\ getVersionCount(a) >= 1
      /\ getRootHash(a) = getRootHash(b)
      /\ getRootHash(a) = getVersionHistory(a)[1]
      /\ getRootHash(a) = Origin(a)

(* The second and the third version of a chain of three. *)
C25_Witness ==
  \E a \in Hashes, b \in Hashes :
    /\ a # b /\ SameChain(a, b)
    /\ CreatedByUpdate(a) /\ CreatedByUpdate(b)
    /\ getVersionCount(a) = 3
    /\ Origin(a) # a /\ Origin(b) # b

----------------------------------------------------------------------------
(* C26 - For every hash h for which no record was ever created:            *)
(* verifySBOM(h) returns exists = false (and the zero record),             *)
(* verifySignature(h) returns (false, address(0)) and                      *)
(* verifyCompleteSBOM(h) returns (false, false, false, ""); none of the    *)
(* three reverts.                                                          *)
C26_AbsentRecord ==
  \A h \in Hashes :
    sbomLog[h] = <<>> =>
      /\ ~recordExists(h)
      /\ verifySBOM(h) = [exists |-> FALSE, record |-> NoRecord]
      /\ verifySignature(h) =
           [reverted |-> FALSE, isValid |-> FALSE, signer |-> ZeroAddr]
      /\ verifyCompleteSBOM(h) =
           [reverted |-> FALSE, exists |-> FALSE, signatureValid |-> FALSE,
            vendorVerified |-> FALSE, vendorName |-> ""]

(* One hash is registered by a verified vendor, another one never was. *)
C26_Witness ==
  \E h \in Hashes, g \in Hashes :
    /\ sbomLog[h] = <<>>
    /\ recordExists(g) /\ verifyCompleteSBOM(g).vendorVerified
    /\ verifySignature(g).isValid
    /\ ~verifySignature(h).isValid

----------------------------------------------------------------------------
(* C27 - For every hash h for which no record was ever created, in every   *)
(* reachable state, also when bytes32(0) has been registered and updated:  *)
(* getVersionHistory(h) is empty, getVersionCount(h) is 0 and              *)
(* getRootHash(h) is bytes32(0).                                           *)
C27_AbsentHistory ==
  \A h \in Hashes :
    sbomLog[h] = <<>> =>
      /\ getVersionHistory(h) = <<>>
      /\ getVersionCount(h) = 0
      /\ getRootHash(h) = ZeroHash

----------------------------------------------------------------------------
(* C28 - Stored-signature authenticity: for every record the stored        *)
(* signature is well-formed and recovers over the record's hash to the     *)
(* record's vendor, which is the sender of the call that created it; hence *)
(* verifySignature(h) never reverts and returns (true, vendor) for every   *)
(* registered h; and a signature produced over one hash never passes the   *)
(* requires of a call that would create a record for another hash.         *)
SignatureMismatch == "Invalid signature - signer does not match sender"

C28_Stored ==
  \A h \in Hashes :
    recordExists(h) =>
      /\ WellFormed(sbomRecords[h].signature)
      /\ recoverSigner(h, sbomRecords[h].signature) = Return(sbomRecords[h].vendor)
      /\ sbomRecords[h].signature.rs.digest = h
      /\ sbomRecords[h].vendor = sbomLog[h][1].vendor
      /\ verifySignature(h) =
           [reverted |-> FALSE, isValid |-> TRUE, signer |-> sbomRecords[h].vendor]

C28_Created ==
  (last.op \in {"registerSBOM", "updateSBOM"}) =>
    LET h == IF last.op = "registerSBOM" THEN last.args[1] ELSE last.args[2]
    IN  /\ sbomRecords[h].vendor = last.sender
        /\ sbomRecords[h].signature = last.args[Len(last.args)]

(* For a hash g with a record no call creates a record at all; for one     *)
(* without, the signature decides registerSBOM, and updateSBOM from the    *)
(* sender's own records.                                                   *)
C28_NoReuse ==
  \A g \in Hashes :
    ~recordExists(g) =>
      \A h \in Hashes \ {g}, k \in Keys, s \in Keys :
        /\ registerSBOM_revert(s, g, signHash(h, k)) # ""
        /\ \A o \in Hashes :
             (recordExists(o) /\ sbomRecords[o].vendor = s) =>
               updateSBOM_revert(s, o, g, signHash(h, k)) = SignatureMismatch

C28_Authentic == [](C28_Stored /\ C28_Created /\ C28_NoReuse)

(* A vendor's stored signature over h is offered by the same, still        *)
(* verified vendor for another hash, and is rejected.                      *)
C28_Witness ==
  \E h \in Hashes, g \in Hashes :
    /\ recordExists(h) /\ ~recordExists(g)
    /\ isVerifiedVendor(sbomRecords[h].vendor)
    /\ verifySignature(h).isValid
    /\ registerSBOM_revert(sbomRecords[h].vendor, g, sbomRecords[h].signature)
         = SignatureMismatch
    /\ updateSBOM_revert(sbomRecords[h].vendor, h, g, sbomRecords[h].signature)
         = SignatureMismatch

----------------------------------------------------------------------------
(* C29 - For a hash without record and a well-formed signature whose       *)
(* recovered signer is not the sender, registerSBOM reverts with "Invalid  *)
(* signature - signer does not match sender": also when the sender is not  *)
(* a verified vendor, and also when the signature is the genuine signature *)
(* of another, verified vendor.                                            *)
C29_SignerMismatch ==
  \A h \in Hashes :
    ~recordExists(h) =>
      \A s \in Keys, sig \in Signatures :
        (WellFormed(sig) /\ recoverSigner(h, sig).value # s) =>
          registerSBOM_revert(s, h, sig) = SignatureMismatch

(* The signature of every mined registerSBOM recovers to its sender. *)
C29_Rejected ==
  (Success /\ last'.op = "registerSBOM") =>
    \E h \in Hashes, sig \in Signatures :
      /\ last'.args[1] = h /\ last'.args[3] = sig
      /\ WellFormed(sig)
      /\ recoverSigner(h, sig).value = last'.sender

C29_Mismatch == [](C29_SignerMismatch) /\ [][C29_Rejected]_vars

(* An unverified account offers the genuine signature of a verified vendor *)
(* over a hash without record, and a signature that recovers to nobody.    *)
C29_Witness ==
  \E h \in Hashes, s \in Keys, t \in Keys :
    /\ ~recordExists(h)
    /\ s # t /\ ~isVerifiedVendor(s) /\ isVerifiedVendor(t)
    /\ registerSBOM_revert(t, h, signHash(h, t)) = ""
    /\ registerSBOM_revert(s, h, signHash(h, t)) = SignatureMismatch
    /\ registerSBOM_revert(t, h, signHash(h, s)) = SignatureMismatch
    /\ registerSBOM_revert(s, h, NotOnCurve) = SignatureMismatch

----------------------------------------------------------------------------
(* C30 - Events: every mined registerSBOM emits exactly one                *)
(* SBOMRegistered(hash, sender, block.timestamp, metadata), every mined    *)
(* updateSBOM exactly one SBOMUpdated(oldHash, newHash, sender,            *)
(* block.timestamp), with the values of the record just stored; every      *)
(* mined registerVendor / revokeVendor exactly one VendorRegistered /      *)
(* VendorRevoked; events are logged in the order the transactions are      *)
(* mined, and nothing is emitted otherwise.                                *)
C30_Emitted ==
  /\ (Success /\ last'.op = "registerSBOM") =>
        \E h \in Hashes :
          /\ last'.args[1] = h
          /\ sbomRecords'[h].vendor = last'.sender
          /\ sbomRecords'[h].timestamp = now
          /\ sbomRecords'[h].metadata = last'.args[2]
          /\ last'.log =
               <<[name |-> "SBOMRegistered", hash |-> sbomRecords'[h].hash,
                  vendor |-> sbomRecords'[h].vendor,
                  timestamp |-> sbomRecords'[h].timestamp,
                  metadata |-> sbomRecords'[h].metadata]>>
          /\ sbomLog' = [sbomLog EXCEPT ![h] = Append(@, last'.log[1])]
  /\ (Success /\ last'.op = "updateSBOM") =>
        \E o \in Hashes, n \in Hashes :
          /\ last'.args[1] = o /\ last'.args[2] = n
          /\ sbomRecords'[n].vendor = last'.sender
          /\ sbomRecords'[n].timestamp = now
          /\ last'.log =
               <<[name |-> "SBOMUpdated", oldHash |-> o,
                  newHash |-> sbomRecords'[n].hash,
                  vendor |-> sbomRecords'[n].vendor,
                  timestamp |-> sbomRecords'[n].timestamp]>>
          /\ last'.log[1].oldHash = sbomRecords'[n].previousHash
          /\ sbomLog' = [sbomLog EXCEPT ![n] = Append(@, last'.log[1])]
  /\ (Success /\ last'.op = "registerVendor") =>
        \E a \in Addresses :
          /\ last'.args[1] = a
          /\ last'.log =
               <<[name |-> "VendorRegistered", vendor |-> a,
                  vendorName |-> getVendorInfo(a)'.name,
                  timestamp |-> getVendorInfo(a)'.registeredAt]>>
          /\ getVendorInfo(a)'.registeredAt = now
  /\ (Success /\ last'.op = "revokeVendor") =>
        \E a \in Addresses :
          /\ last'.args[1] = a
          /\ last'.log =
               <<[name |-> "VendorRevoked", vendor |-> a, timestamp |-> now]>>
          /\ ~isVerifiedVendor(a)'
  /\ (Success /\ last'.op = "transferOwnership") => last'.log = <<>>
  /\ Success
  /\ last'.at = now
  /\ \A i \in 1..Len(last'.log) : last'.log[i].timestamp = last'.at
  /\ \A i \in 1..Len(last.log) : last.log[i].timestamp < last'.at
  /\ ~(last'.op \in {"registerSBOM", "updateSBOM"}) => sbomLog' = sbomLog

C30_Events == [][C30_Emitted]_vars

(* An update was mined after the registration of its old hash; each        *)
(* emitted its own event, in that order.                                   *)
C30_Witness ==
  /\ last.op = "updateSBOM"
  /\ Len(last.log) = 1
  /\ last.log[1].name = "SBOMUpdated"
  /\ last.log[1].oldHash = last.args[1] /\ last.log[1].newHash = last.args[2]
  /\ sbomLog[last.args[2]] = last.log
  /\ Len(sbomLog[last.args[1]]) = 1
  /\ sbomLog[last.args[1]][1].name = "SBOMRegistered"
  /\ sbomLog[last.args[1]][1].timestamp < last.log[1].timestamp

----------------------------------------------------------------------------
(* C31 - Every event carries enough fields to reconstruct the transition   *)
(* it reports: an observer that replays only the events holds the same     *)
(* vendor table, records, rootHash and histories as the contract.  Such an *)
(* observer exists only if the event determines the transition: whenever   *)
(* a call is mined, every call that would have been accepted in the same   *)
(* state and would have emitted the same event leads to the same tables.   *)
C31_SameEventSameVendors ==
  (Success /\ last'.op = "registerVendor") =>
    \A s \in Keys, a \in Addresses, p \in Profiles, i \in 1..Len(Companies) :
      (/\ last'.sender = s
       /\ last'.args = <<a, p[1], p[2], p[3]>>
       /\ registerVendor_revert(s, a, p[1]) = "") =>
        vendors' = [vendors EXCEPT ![a] =
                      [name |-> p[1], website |-> Companies[i][2],
                       contactEmail |-> Companies[i][3], verified |-> TRUE,
                       registeredAt |-> now]]

C31_SameEventSameRecord ==
  /\ (Success /\ last'.op = "registerSBOM") =>
        \A s \in Keys, h \in Hashes, m \in Metadata, sig \in Signatures :
          (/\ last'.sender = s
           /\ last'.log = <<registerSBOM_event(s, h, m)>>
           /\ registerSBOM_revert(s, h, sig) = "") =>
            sbomRecords' = [sbomRecords EXCEPT ![h] =
                              registerSBOM_record(s, h, m, sig)]
  /\ (Success /\ last'.op = "updateSBOM") =>
        \A s \in Keys, o \in Hashes, n \in Hashes, m \in Metadata,
           sig \in Signatures :
          (/\ last'.sender = s
           /\ last'.log = <<updateSBOM_event(s, o, n)>>
           /\ updateSBOM_revert(s, o, n, sig) = "") =>
            sbomRecords' = [sbomRecords EXCEPT ![n] =
                              updateSBOM_record(s, o, n, m, sig)]

C31_EventsReconstructState ==
  [][C31_SameEventSameVendors /\ C31_SameEventSameRecord]_vars

----------------------------------------------------------------------------
(* C32 - Version tracking is a linked list: in every chain each version    *)
(* after the first has as previousHash the version right before it in the  *)
(* history of the root.                                                    *)
C32_LinkedList ==
  \A root \in Hashes :
    \A i \in 2..Len(versionHistory[root]) :
      sbomRecords[versionHistory[root][i]].previousHash
        = versionHistory[root][i - 1]

----------------------------------------------------------------------------
(* C33 - Signature round-trip: for every digest d and every key,           *)
(* recoverSigner(d, signHash(d, key)) returns the address of that key,     *)
(* where signHash is the CLI signer (signed-message prefix over the raw    *)
(* digest); recoverSigner depends on (digest, signature) only and leaves   *)
(* the contract storage alone.                                             *)
C33_Recovered ==
  last.op = "recoverSigner" =>
    /\ last.sender # ZeroAddr => last.log = <<Return(last.sender)>>
    /\ \A k \in Keys :
         last.args[2] = signHash(last.args[1], k) => last.log = <<Return(k)>>

C33_Pure ==
  /\ UNCHANGED <<registryOwner, vendors, sbomRecords, versionHistory,
                 rootHash, now, sbomLog>>
  /\ last'.op = "recoverSigner" =>
       /\ last'.args = last.args
       /\ last'.log = <<recoverSigner(last.args[1], last.args[2])>>

C33_RoundTrip == [](C33_Recovered) /\ [][C33_Pure]_vars

(* A key other than the deployer's signed the largest digest, and the      *)
(* contract recovered its address.                                         *)
C33_Witness ==
  /\ last.op = "recoverSigner"
  /\ last.sender \in Keys \ {Deployer}
  /\ last.args = <<MaxHash, signHash(MaxHash, last.sender)>>
  /\ last.log[1].value = last.sender
  /\ ~last.log[1].reverted

----------------------------------------------------------------------------
(* C34 - Signature decoding: recoverSigner reverts with "Invalid signature *)
(* length" for every signature that is not 65 bytes long; for 65 bytes the *)
(* recovery byte v is accepted exactly when it is 0, 1, 27 or 28 (0 and 1  *)
(* are normalised to 27 and 28), every other value of 0..255 reverts with  *)
(* "Invalid signature version"; the uint8 addition v + 27 never overflows. *)
C34_Decoding ==
  last.op = "recoverSigner" =>
    LET sig == last.args[2]
        r == last.log[1]
    IN  /\ sig.len # 65 => r = Revert("Invalid signature length")
        /\ (sig.len = 65 /\ sig.v \in {0, 1, 27, 28}) =>
             /\ ~r.reverted
             /\ r.value = ecrecover(ethSignedHash(last.args[1]),
                                    IF sig.v < 27 THEN sig.v + 27 ELSE sig.v,
                                    sig.rs)
        /\ (sig.len = 65 /\ sig.v \notin {0, 1, 27, 28}) =>
             r = Revert("Invalid signature version")
        /\ r.reason # "Panic(0x11)"
        /\ sig.v < 27 => sig.v + 27 <= MaxUint8

(* A 65-byte signature with v = 0 or 1 was decoded and recovered to the    *)
(* key that produced it.                                                   *)
C34_Witness ==
  /\ last.op = "recoverSigner"
  /\ last.args[2].len = 65
  /\ last.args[2].v \in {0, 1}
  /\ ~last.log[1].reverted
  /\ last.log[1].value \in Keys
  /\ last.log[1].value = last.args[2].rs.key

----------------------------------------------------------------------------
(* C35 - updateSBOM with an oldHash that has no record reverts with        *)
(* "Original SBOM not found" whatever the sender, the newHash (even a      *)
(* registered one) and the signature (even a malformed one) are; the       *)
(* requires of updateSBOM are evaluated in the order "Original SBOM not    *)
(* found", "Only original vendor can update", "New hash already            *)
(* registered", "Invalid signature length", "Invalid signature version",   *)
(* "Invalid signature - signer does not match sender", and the first one   *)
(* that fails gives the revert message.                                    *)
C35_FirstFailure(s, o, n, sig) ==
  IF ~recordExists(o) THEN RecordNotFound
  ELSE IF sbomRecords[o].vendor # s THEN NotOwner
  ELSE IF recordExists(n) THEN "New hash already registered"
  ELSE IF sig.len # 65 THEN "Invalid signature length"
  ELSE IF (IF sig.v < 27 THEN sig.v + 27 ELSE sig.v) \notin {27, 28}
       THEN "Invalid signature version"
  ELSE IF ecrecover(ethSignedHash(n),
                    IF sig.v < 27 THEN sig.v + 27 ELSE sig.v, sig.rs) # s
       THEN SignatureMismatch
  ELSE ""

(* Signatures offered with an update of o to n: every account's signature *)
(* over either hash, and the malformed ones.                               *)
C35_Offered(o, n) ==
  {signHash(h, k) : h \in {o, n}, k \in Keys}
    \cup {Truncated, BadVersion, NotOnCurve, Unprefixed, LowV}

C35_NotFoundFirst ==
  \A o \in Hashes, n \in Hashes :
    \A sig \in C35_Offered(o, n), s \in Keys \cup {NoKeyAddr} :
      updateSBOM_revert(s, o, n, sig) = C35_FirstFailure(s, o, n, sig)

C35_CheckOrder == [](C35_NotFoundFirst)

(* One hash has no record and another has one; an update of the missing    *)
(* hash onto the registered one with a truncated signature is answered     *)
(* "Original SBOM not found", and from the registered hash each of the     *)
(* later messages is the answer to some call.                              *)
C35_Witness ==
  \E o \in Hashes, n \in Hashes, f \in Hashes :
    /\ ~recordExists(o) /\ recordExists(n) /\ ~recordExists(f)
    /\ updateSBOM_revert(NoKeyAddr, o, n, Truncated) = RecordNotFound
    /\ updateSBOM_revert(NoKeyAddr, n, n, Truncated) = NotOwner
    /\ updateSBOM_revert(sbomRecords[n].vendor, n, n, Truncated)
         = "New hash already registered"
    /\ updateSBOM_revert(sbomRecords[n].vendor, n, f, Truncated)
         = "Invalid signature length"
    /\ updateSBOM_revert(sbomRecords[n].vendor, n, f, BadVersion)
         = "Invalid signature version"
    /\ updateSBOM_revert(sbomRecords[n].vendor, n, f, NotOnCurve)
         = SignatureMismatch

----------------------------------------------------------------------------
(* C36 - A new version has a different hash: updateSBOM with newHash equal *)
(* to oldHash never succeeds in any state (it reverts with "Original SBOM  *)
(* not found", "Only original vendor can update" or "New hash already      *)
(* registered"), so no record is ever its own previousHash.                *)
C36_SameHashRejected ==
  \A s \in AllAddr, h \in Hashes, sig \in Signatures :
    updateSBOM_revert(s, h, h, sig)
      \in {RecordNotFound, NotOwner, "New hash already registered"}

C36_NotOwnPrevious ==
  \A h \in Hashes : recordExists(h) => sbomRecords[h].previousHash # h

----------------------------------------------------------------------------
(* C37 - Frame conditions: registerVendor, revokeVendor and                *)
(* transferOwnership leave every record, rootHash entry and version        *)
(* history unchanged; registerSBOM and updateSBOM leave the vendor table   *)
(* and the registry owner unchanged and change no record and no rootHash   *)
(* entry other than those of the newly inserted hash, and no position of   *)
(* any version history: exactly one history grows, by the new hash at its  *)
(* end.  The queries are view functions and take no step.                  *)
C37_VendorOps ==
  (Success /\ last'.op \in {"registerVendor", "revokeVendor", "transferOwnership"})
    => UNCHANGED <<sbomRecords, rootHash, versionHistory>>

C37_Inserted(new) ==
  /\ UNCHANGED <<vendors, registryOwner>>
  /\ \A h \in Hashes \ {new} :
       sbomRecords'[h] = sbomRecords[h] /\ rootHash'[h] = rootHash[h]
  /\ sbomRecords'[new] # sbomRecords[new]
  /\ \E k \in Hashes :
       /\ versionHistory'[k] = Append(versionHistory[k], new)
       /\ \A j \in Hashes \ {k} : versionHistory'[j] = versionHistory[j]

C37_SBOMOps ==
  /\ (Success /\ last'.op = "registerSBOM") =>
       \E new \in Hashes : last'.args[1] = new /\ C37_Inserted(new)
  /\ (Success /\ last'.op = "updateSBOM") =>
       \E new \in Hashes : last'.args[2] = new /\ C37_Inserted(new)

C37_NoOtherWriter ==
  Success \/ UNCHANGED <<registryOwner, vendors, sbomRecords, rootHash,
                         versionHistory>>

C37_Frame == [][C37_VendorOps /\ C37_SBOMOps /\ C37_NoOtherWriter]_vars

(* A vendor was revoked while it had a record, and afterwards appended a  *)
(* second version to that chain.                                           *)
C37_Witness ==
  /\ last.op = "updateSBOM"
  /\ ~vendors[last.sender].verified /\ vendors[last.sender].registeredAt # 0
  /\ \E k \in Hashes : versionHistory[k] = <<last.args[1], last.args[2]>>

----------------------------------------------------------------------------
(* C38 - The zero address is never trusted: in every reachable state       *)
(* address(0) is not a verified vendor and is not the vendor of any        *)
(* record, so a signature from which ecrecover yields address(0) (a        *)
(* failed recovery) makes every registerSBOM and updateSBOM revert.        *)
C38_NullNeverTrusted ==
  /\ ~isVerifiedVendor(ZeroAddr)
  /\ \A h \in Hashes : recordExists(h) => sbomRecords[h].vendor # ZeroAddr
  /\ \A sig \in Signatures, h \in Hashes :
       recoverSigner(h, sig) = Return(ZeroAddr) =>
         \A s \in AllAddr :
           /\ registerSBOM_revert(s, h, sig) # ""
           /\ \A o \in Hashes : updateSBOM_revert(s, o, h, sig) # ""

(* A verified vendor with a record offers a signature that recovers to     *)
(* address(0) for a fresh hash: registration and update are both refused   *)
(* with the signer mismatch.                                               *)
C38_Witness ==
  \E h \in Hashes, o \in Hashes :
    /\ ~recordExists(h) /\ recordExists(o)
    /\ isVerifiedVendor(sbomRecords[o].vendor)
    /\ recoverSigner(h, NotOnCurve) = Return(ZeroAddr)
    /\ registerSBOM_revert(sbomRecords[o].vendor, h, NotOnCurve) = SignatureMismatch
    /\ updateSBOM_revert(sbomRecords[o].vendor, o, h, NotOnCurve) = SignatureMismatch

----------------------------------------------------------------------------
(* C39 - Existence is a non-zero timestamp: in every reachable state every *)
(* stored record has timestamp /= 0, so a hash exists (timestamp /= 0, as  *)
(* verifySBOM reports) exactly when a registerSBOM or updateSBOM for it    *)
(* has succeeded, and no hash is ever inserted twice behind a record       *)
(* stored with timestamp 0.                                                *)
C39_TimestampIsExistence ==
  \A h \in Hashes :
    /\ sbomRecords[h] # NoRecord => sbomRecords[h].timestamp # 0
    /\ (sbomRecords[h].timestamp # 0) <=> (sbomLog[h] # <<>>)
    /\ verifySBOM(h).exists <=> (sbomLog[h] # <<>>)
    /\ Len(sbomLog[h]) <= 1
    /\ sbomLog[h] # <<>> =>
         /\ sbomLog[h][1].name \in {"SBOMRegistered", "SBOMUpdated"}
         /\ sbomLog[h][1].timestamp = sbomRecords[h].timestamp

(* One hash was registered, one was created by an update and one has no    *)
(* record.                                                                 *)
C39_Witness ==
  \E r \in Hashes, u \in Hashes, f \in Hashes :
    /\ sbomLog[r] # <<>> /\ sbomLog[r][1].name = "SBOMRegistered"
    /\ sbomLog[u] # <<>> /\ sbomLog[u][1].name = "SBOMUpdated"
    /\ sbomRecords[r].timestamp # 0 /\ sbomRecords[u].timestamp # 0
    /\ sbomLog[f] = <<>> /\ sbomRecords[f].timestamp = 0
    /\ ~verifySBOM(f).exists

----------------------------------------------------------------------------
(* C40 - The version index partitions the records: in every reachable      *)
(* state every registered hash occurs in exactly one version history and   *)
(* exactly once in it; versionHistory[k] is non-empty only for keys k that *)
(* are root records, and then its first element is k; every hash listed in *)
(* a history has a record; and rootHash[h] of every registered h is a      *)
(* registered hash with rootHash[rootHash[h]] = rootHash[h].               *)
C40_Occurrences(h) ==
  {<<k, i>> \in Hashes \X (1..(MaxHash + 1)) :
     i <= Len(versionHistory[k]) /\ versionHistory[k][i] = h}

C40_Partition ==
  /\ \A h \in Hashes :
       recordExists(h) =>
         /\ Cardinality(C40_Occurrences(h)) = 1
         /\ recordExists(rootHash[h])
         /\ rootHash[rootHash[h]] = rootHash[h]
  /\ \A k \in Hashes :
       versionHistory[k] # <<>> =>
         /\ recordExists(k)
         /\ rootHash[k] = k
         /\ ~CreatedByUpdate(k)
         /\ versionHistory[k][1] = k
         /\ \A i \in 1..Len(versionHistory[k]) :
              recordExists(versionHistory[k][i])

(* Two chains exist, one of two versions and one of a single root. *)
C40_Witness ==
  \E a \in Hashes, b \in Hashes, c \in Hashes :
    /\ versionHistory[a] = <<a, b>>
    /\ versionHistory[c] = <<c>>
    /\ versionHistory[b] = <<>>
    /\ rootHash[b] = a /\ rootHash[c] = c

====
